---- MODULE Spec2Model ----
(***************************************************************************)
(* Model of the sound-detection core of hitochan777/fuzai.                 *)
(*                                                                         *)
(*   - the ordered frequency detector   src/sound_detector.py              *)
(*   - the unordered frequency detector src/sound_detect/sound_detector.py *)
(*   - the spectral analyzer            src/sound_detect/frequency_analyzer.py *)
(*   - the pattern (DTW) detector, of which the repository holds the tests *)
(*     (src/test_sound_detector.py) but not the class: it is modelled from *)
(*     spec.md section 4.5/4.6                                             *)
(*                                                                         *)
(* Time is counted in ticks.  A call reads the clock once (the readings a  *)
(* call takes in the source lie within one block period of each other) and *)
(* successive processed calls are at least one tick apart.  An audio block *)
(* of a frequency detector is represented by its magnitude spectrum over   *)
(* the bins of interest (every other bin carries magnitude zero and is     *)
(* discarded by the analyzer's `magnitude > 0`).  The wall-clock hour is   *)
(* an input of each call of the pattern detector.                          *)
(***************************************************************************)
EXTENDS Integers, Sequences, FiniteSets, TLC

VARIABLES
    variant,                    \* which SoundDetector class was constructed
    now,                        \* last value time.time() returned
    detection_callback,         \* TRUE iff a callback is registered
    frequency_detection_times,  \* target -> detection time record
    last_detection_time,        \* throttle timestamp
    current_state,              \* DetectionState (ordered detector)
    state_transition_time,
    current_frequency_index,
    detected_frequencies,
    fire_times,                 \* history: the time of every callback invocation
    last_call,                  \* history: what the last process_audio_chunk did
    presented,                  \* history: targets presented in list order so far
    script,                     \* history: progress of the in-order presentation
    blocks_fed,                 \* history: blocks fed so far (capped at min_detections)
    enable_time_pause,          \* pattern detector: time gate configuration
    pause_start_hour,
    pause_end_hour,
    audio_buffer,               \* pattern detector: rolling buffer of samples
    samples_ingested,           \* history: samples appended to the buffer so far (capped)
    window_constraint_ratio,    \* DTW analyzer: <<numerator, denominator>>
    dtw_reference,              \* DTW analyzer: the reference audio
    dtw_pattern,                \* the audio pattern passed to calculate_similarity
    dtw_fault,                  \* where the call raises: "none", "extract", "dtw"
    dtw_similarity,             \* what calculate_similarity gave
    fa_audio_data,              \* spectral analyzer: the block passed to it
    fa_num_peaks,               \* spectral analyzer: the num_peaks argument
    fa_peaks,                   \* what find_dominant_frequencies returned
    is_capturing,               \* AudioCapture: the running flag
    capture_thread,             \* AudioCapture: "thread" or "none"
    stream,                     \* AudioCapture: "open" or "none"
    loop_pc,                    \* position of the capture thread in _capture_loop
    loop_audio_data,            \* the capture loop's local audio_data
    stop_pc,                    \* position of the caller inside stop_capture
    stop_calls,                 \* history: calls of stop_capture so far
    delivered,                  \* history: blocks given to the audio callback (capped)
    delivered_after_stop,       \* history: of these, after the flag was cleared (capped)
    earlier_loops,              \* capture threads started before the latest one
    start_calls,                \* history: calls of start_capture so far
    start_returned,             \* what the last start_capture returned
    otps,                       \* OTP store: code -> time of issue, or Absent
    handlers,                   \* the HTTP handler threads serving unlock requests
    issued,                     \* history: OTPs issued so far
    accepted_since_issue,       \* history: per code, acceptances since its last issue (capped)
    unlocks                     \* history: servo unlock actions executed (capped)

freqVars == <<variant, now, detection_callback, frequency_detection_times,
              last_detection_time, current_state, state_transition_time,
              current_frequency_index, detected_frequencies, fire_times,
              last_call, presented, script, blocks_fed>>

patternVars == <<enable_time_pause, pause_start_hour, pause_end_hour, audio_buffer,
                 samples_ingested>>

dtwVars == <<window_constraint_ratio, dtw_reference, dtw_pattern, dtw_fault,
             dtw_similarity>>

analyzerVars == <<fa_audio_data, fa_num_peaks, fa_peaks>>

restartVars == <<earlier_loops, start_calls, start_returned>>

captureVars == <<is_capturing, capture_thread, stream, loop_pc, loop_audio_data,
                 stop_pc, stop_calls, delivered, delivered_after_stop, restartVars>>

serviceVars == <<otps, handlers, issued, accepted_since_issue, unlocks>>

vars == <<freqVars, patternVars, dtwVars, analyzerVars, captureVars, serviceVars>>

(***************************************************************************)
(* Configuration of the detectors.                                         *)
(***************************************************************************)
TargetFrequencies == <<440, 880>>
NumTargets == Len(TargetFrequencies)
TargetSet == {TargetFrequencies[i] : i \in 1..NumTargets}

\* detection_duration, in ticks
DetectionDuration == 2
\* sample_rate, in samples per tick
SampleRate == 5
\* chunk_size, in samples
ChunkSize == 4
\* throttle_duration, in ticks
ThrottleDuration == 3
\* state_timeout, in ticks
StateTimeout == 2
\* min_matching_frequencies of the unordered detector
MinMatchingFrequencies == 1

\* detection_threshold = DetectionThresholdNum / DetectionThresholdDen = 0.1
DetectionThresholdNum == 1
DetectionThresholdDen == 10
\* FrequencyAnalyzer.tolerance_range, in Hz
ToleranceRange == 50
\* find_dominant_frequencies' default num_peaks
NumPeaks == 10
\* the ordered detector also accepts target * 1, target * 2, target * 3
NumHarmonics == 3

(***************************************************************************)
(* Bounds of the model.                                                    *)
(***************************************************************************)
\* the clock runs from Epoch to Epoch + Horizon
Horizon == 5
\* the largest gap, in ticks, between two process_audio_chunk calls
MaxGap == 3

\* time.time() is seconds since 1970: far above every configured duration.
Epoch == ThrottleDuration + StateTimeout + DetectionDuration + 1
MaxTime == Epoch + Horizon

WAITING == "waiting"
COMPLETED == "completed"

Max(a, b) == IF a >= b THEN a ELSE b
Abs(x) == IF x >= 0 THEN x ELSE 0 - x

(***************************************************************************)
(* Audio blocks.  "empty" is the zero-length array; every other block is   *)
(* given by the magnitude of its spectrum at the bins of Freqs.            *)
(***************************************************************************)
Freqs == {440, 480, 880, 920, 1000}

Blocks == {"empty", "silence", "t440", "t440leak", "t880", "t880leak", "t1000"}

Spectrum(b) ==
    CASE b = "empty"    -> <<>>
      [] b = "silence"  -> [f \in Freqs |-> 0]
      [] b = "t440"     -> [f \in Freqs |-> IF f = 440 THEN 4 ELSE 0]
      [] b = "t440leak" -> [f \in Freqs |-> IF f = 440 THEN 4 ELSE IF f = 480 THEN 2 ELSE 0]
      [] b = "t880"     -> [f \in Freqs |-> IF f = 880 THEN 4 ELSE 0]
      [] b = "t880leak" -> [f \in Freqs |-> IF f = 880 THEN 4 ELSE IF f = 920 THEN 2 ELSE 0]
      [] b = "t1000"    -> [f \in Freqs |-> IF f = 1000 THEN 4 ELSE 0]

(***************************************************************************)
(* FrequencyAnalyzer                                                       *)
(***************************************************************************)
\* np.argsort(magnitude)[-num_peaks:], loudest first: the k bins of largest
\* magnitude (numpy leaves the order of equal magnitudes open; nothing below
\* depends on it)
RECURSIVE TopBins(_, _, _)
TopBins(mag, bins, k) ==
    IF k = 0 \/ bins = {} THEN <<>>
    ELSE LET b == CHOOSE x \in bins : \A y \in bins : mag[y] <= mag[x]
         IN  <<b>> \o TopBins(mag, bins \ {b}, k - 1)

\* the body of find_dominant_frequencies on the magnitude of the lower half
\* of the spectrum (<<>> for a block of no samples): the (frequency,
\* amplitude) pairs of the num_peaks loudest bins, without the bins of
\* magnitude zero, sorted by amplitude descending.  The slice [-num_peaks:]
\* holds every bin when num_peaks is 0, since [-0:] is [0:].
peak_frequencies_All(magnitude, num_peaks) ==
    IF DOMAIN magnitude = {} THEN <<>>
    ELSE LET top == TopBins(magnitude, DOMAIN magnitude, Cardinality(DOMAIN magnitude))
             peaks == [i \in 1..Len(top) |-> <<top[i], magnitude[top[i]]>>]
         IN  SelectSeq(peaks, LAMBDA p : p[2] > 0)

peak_frequencies(magnitude, num_peaks) ==
    IF DOMAIN magnitude = {} THEN <<>>
    ELSE LET k == IF num_peaks = 0 THEN Cardinality(DOMAIN magnitude) ELSE num_peaks
             top == TopBins(magnitude, DOMAIN magnitude, k)
             peaks == [i \in 1..Len(top) |-> <<top[i], magnitude[top[i]]>>]
         IN  SelectSeq(peaks, LAMBDA p : p[2] > 0)

find_dominant_frequencies(b, num_peaks) == peak_frequencies(Spectrum(b), num_peaks)

is_frequency_match(detected_freq, target_freq) ==
    Abs(detected_freq - target_freq) <= ToleranceRange

(***************************************************************************)
(* SoundDetector._detect_target_frequencies                                *)
(***************************************************************************)
\* max(1, int(detection_duration * sample_rate / chunk_size))
min_detections == Max(1, (DetectionDuration * SampleRate) \div ChunkSize)

\* mutant: the amplitude test dropped
AboveThreshold_Always(amplitude, max_amplitude) == TRUE

\* amplitude >= threshold_amplitude, threshold_amplitude being
\* max_amplitude * detection_threshold
AboveThreshold(amplitude, max_amplitude) ==
    amplitude * DetectionThresholdDen >= max_amplitude * DetectionThresholdNum

\* the test of one peak against one target: the ordered detector accepts the
\* target and its harmonics, the unordered one the target only
PeakMatches(v, peak, target_freq, threshold_max) ==
    /\ IF v = "ordered"
       THEN \E i \in 0..(NumHarmonics - 1) : is_frequency_match(peak[1], target_freq * (i + 1))
       ELSE is_frequency_match(peak[1], target_freq)
    /\ AboveThreshold(peak[2], threshold_max)

\* mutant: the old entries kept
Prune_Nothing(rec, cutoff_time) == rec

\* [t for t in record if t >= cutoff_time]
Prune(rec, cutoff_time) == SelectSeq(rec, LAMBDA t : t >= cutoff_time)

\* the record after a matching peak: the time appended, old entries removed
AppendDetection(rec, current_time) ==
    Prune(Append(rec, current_time), current_time - DetectionDuration)

\* the inner loop over the dominant peaks for one target, from peak i on:
\* the target's record when the loop ends, and whether the target was added
\* to detected_targets.  Every matching peak appends the call's time; the
\* loop leaves (`break`) only once the record holds min_detections entries.
RECURSIVE ScanPeaks(_, _, _, _, _, _, _)
ScanPeaks(v, rec, peaks, i, target_freq, current_time, max_amplitude) ==
    IF i > Len(peaks) THEN [rec |-> rec, hit |-> FALSE]
    ELSE IF ~PeakMatches(v, peaks[i], target_freq, max_amplitude)
         THEN ScanPeaks(v, rec, peaks, i + 1, target_freq, current_time, max_amplitude)
         ELSE LET rec2 == AppendDetection(rec, current_time) IN
              IF Len(rec2) >= min_detections
              THEN [rec |-> rec2, hit |-> TRUE]
              ELSE ScanPeaks(v, rec2, peaks, i + 1, target_freq, current_time, max_amplitude)

RECURSIVE SeqMax(_)
SeqMax(s) == IF Len(s) = 0 THEN 0 ELSE Max(Head(s)[2], SeqMax(Tail(s)))

\* _detect_target_frequencies from its line `if not dominant_freqs` on: the
\* records after the call, and the set of sustained-detected targets
detect_in_peaks(v, times, dominant_freqs, current_time) ==
    IF Len(dominant_freqs) = 0 THEN [times |-> times, detected |-> {}]
    ELSE LET max_amplitude == SeqMax(dominant_freqs)
             scan == [f \in TargetSet |->
                        ScanPeaks(v, times[f], dominant_freqs, 1, f, current_time, max_amplitude)]
         IN  [times |-> [f \in TargetSet |-> scan[f].rec],
              detected |-> {f \in TargetSet : scan[f].hit}]

detect_target_frequencies(v, times, b, current_time) ==
    detect_in_peaks(v, times, find_dominant_frequencies(b, NumPeaks), current_time)

(***************************************************************************)
(* The ordered detector's state machine                                    *)
(***************************************************************************)
\* the state machine's fields as one record
Machine == [state |-> current_state, index |-> current_frequency_index,
            trans |-> state_transition_time, detected |-> detected_frequencies]

\* mutant: a reset after the last target that leaves the index where it was
reset_state_machine_IndexKept(reset_time) ==
    [state |-> WAITING, index |-> NumTargets, trans |-> reset_time, detected |-> <<>>]

reset_state_machine(reset_time) ==
    [state |-> WAITING, index |-> 0, trans |-> reset_time, detected |-> <<>>]

\* mutant: the timeout check dropped
TimedOut_Never(m, current_time) == FALSE

\* whether the timeout check of _update_state_machine resets the machine
TimedOut(m, current_time) ==
    /\ m.state = WAITING
    /\ m.index # 0
    /\ current_time - m.trans > StateTimeout

\* mutant: any detected target taken for the expected one
ExpectedDetected_Any(expected_freq, detected_freqs) == detected_freqs # {}

\* `if expected_freq in detected_freqs`
ExpectedDetected(expected_freq, detected_freqs) == expected_freq \in detected_freqs

\* _update_state_machine after its call of _detect_target_frequencies:
\* current_time is the reading of line 130, reset_time the one a reset makes
update_state_machine(m, detected_freqs, current_time, reset_time) ==
    IF TimedOut(m, current_time) THEN reset_state_machine(reset_time)
    ELSE IF m.state # WAITING THEN m
    ELSE IF m.index >= NumTargets
         THEN [m EXCEPT !.state = COMPLETED, !.trans = current_time]
    ELSE LET expected_freq == TargetFrequencies[m.index + 1] IN
         IF ~ExpectedDetected(expected_freq, detected_freqs) THEN m
         ELSE [state |-> IF m.index + 1 >= NumTargets THEN COMPLETED ELSE WAITING,
               index |-> m.index + 1,
               trans |-> current_time,
               detected |-> Append(m.detected, expected_freq)]

\* mutant: the throttle test dropped
ThrottleAllows_Never(current_time, last) == TRUE

\* mutant: a throttle timestamp of 0 taken as "throttled"
ThrottleAllows_ZeroBlocks(current_time, last) ==
    last # 0 /\ current_time - last >= ThrottleDuration

\* the throttle test of process_audio_chunk
ThrottleAllows(current_time, last) == current_time - last >= ThrottleDuration

\* mutant: the reset after a fire forgotten
AfterCompleted_NoReset(m, fires, reset_time) == m

\* the machine the ordered process_audio_chunk leaves behind once the
\* machine is COMPLETED: reset after a fire, left alone when throttled
AfterCompleted(m, fires, reset_time) ==
    IF fires THEN reset_state_machine(reset_time) ELSE m

(***************************************************************************)
(* History kept for the properties                                         *)
(***************************************************************************)
NoCall == [quiet |-> FALSE, ran |-> FALSE, paused |-> FALSE, matched |-> FALSE,
           fired |-> FALSE, detected |-> {}]

\* block b is empty or silent: it has no bin of magnitude above zero
Quiet(b) == \A x \in DOMAIN Spectrum(b) : Spectrum(b)[x] = 0

\* block b carries energy at target f (fundamental, within the tolerance)
Presents(b, f) ==
    \E x \in DOMAIN Spectrum(b) : Spectrum(b)[x] > 0 /\ is_frequency_match(x, f)

\* block b carries energy at target f or at one of the harmonics the ordered
\* detector accepts for it
PresentsHarmonic(b, f) ==
    \E x \in DOMAIN Spectrum(b), i \in 0..(NumHarmonics - 1) :
        Spectrum(b)[x] > 0 /\ is_frequency_match(x, f * (i + 1))

\* how many targets the blocks heard so far have presented in list order,
\* one target per block, once b is heard too: by their fundamental only
\* (direct), or by fundamental or accepted harmonic (harmonic)
PresentedAfter(p, b) ==
    [direct   |-> IF p.direct < NumTargets
                     /\ Presents(b, TargetFrequencies[p.direct + 1])
                  THEN p.direct + 1 ELSE p.direct,
     harmonic |-> IF p.harmonic < NumTargets
                     /\ PresentsHarmonic(b, TargetFrequencies[p.harmonic + 1])
                  THEN p.harmonic + 1 ELSE p.harmonic]

\* The in-order presentation to a fresh detector: NumTargets phases of
\* min_detections blocks each, phase k carrying target k; the blocks of one
\* phase lie within detection_duration, and no block comes later than
\* state_timeout after the previous sustained detection.
ScriptLength == NumTargets * min_detections
Deviated == [p |-> 0 - 1, start |-> 0]

ScriptAfter(sc, m, b, update_time, detect_time) ==
    IF sc.p < 0 \/ sc.p >= ScriptLength THEN Deviated
    ELSE LET k == (sc.p \div min_detections) + 1
             first == (sc.p % min_detections = 0)
             start == IF first THEN detect_time ELSE sc.start
         IN  IF /\ Presents(b, TargetFrequencies[k])
                /\ \A j \in 1..NumTargets : j # k => ~Presents(b, TargetFrequencies[j])
                /\ detect_time - start <= DetectionDuration
                /\ (m.index > 0 => update_time - m.trans <= StateTimeout)
             THEN [p |-> sc.p + 1, start |-> start]
             ELSE Deviated

\* the number of blocks fed to the detector so far, counted up to
\* min_detections
BlocksFedAfter ==
    IF blocks_fed < min_detections THEN blocks_fed + 1 ELSE blocks_fed

(***************************************************************************)
(* The state of the DTW analyzer                                           *)
(***************************************************************************)
\* window_constraint_ratio = 0.1
WindowConstraintRatioNum == 1
WindowConstraintRatioDen == 10
DefaultRatio == <<WindowConstraintRatioNum, WindowConstraintRatioDen>>

\* A similarity score: exactly 1.0 ("one"), nan ("nan"), or the value
\* 1 - exp(-num/den) ("value"), which is 0.0 exactly when num = 0; computed
\* tells whether the DTW distance was computed for it.  "raised" is a call
\* that ended with an exception, "none" no call.
Similarity(kind, num, den, computed) ==
    [kind |-> kind, num |-> num, den |-> den, computed |-> computed]
NoSimilarity == Similarity("none", 0, 1, FALSE)

\* the analyzer of a detector that is used through its detector only
DtwIdle ==
    /\ window_constraint_ratio = DefaultRatio
    /\ dtw_reference = <<>>
    /\ dtw_pattern = <<>>
    /\ dtw_fault = "none"
    /\ dtw_similarity = NoSimilarity

\* A block handed to the spectral analyzer on its own: no samples, or the
\* magnitude of its spectrum
AudioData(empty, magnitude) == [empty |-> empty, magnitude |-> magnitude]
EmptyAudio == AudioData(TRUE, [f \in Freqs |-> 0])
Magnitude(audio_data) == IF audio_data.empty THEN <<>> ELSE audio_data.magnitude
NoPeaks == [done |-> FALSE, peaks |-> <<>>]

\* the analyzer of a detector that is used through its detector only
AnalyzerIdle ==
    /\ fa_audio_data = EmptyAudio
    /\ fa_num_peaks = NumPeaks
    /\ fa_peaks = NoPeaks

\* The OTP codes of the model, the otp of a request that carries none, and
\* the entry of a code that is not in the store
Codes == {"c1", "c2"}
NoOtp == ""
Absent == -1
\* the HTTP handler threads: two requests can be served at the same time
Handlers == {"h1", "h2"}
IdleHandler == [pc |-> "idle", otp |-> NoOtp, response |-> "none"]

\* OTPManager.__init__ and the servers before any request
ServiceIdle ==
    /\ otps = [c \in Codes |-> Absent]
    /\ handlers = [h \in Handlers |-> IdleHandler]
    /\ issued = 0
    /\ accepted_since_issue = [c \in Codes |-> 0]
    /\ unlocks = 0

\* AudioCapture.__init__: no stream, no thread, not capturing
CaptureIdle ==
    /\ is_capturing = FALSE
    /\ capture_thread = "none"
    /\ stream = "none"
    /\ loop_pc = "unstarted"
    /\ loop_audio_data = "unset"
    /\ stop_pc = "idle"
    /\ stop_calls = 0
    /\ delivered = 0
    /\ delivered_after_stop = 0
    /\ earlier_loops = <<>>
    /\ start_calls = 0
    /\ start_returned = "none"

(***************************************************************************)
(* Construction                                                            *)
(***************************************************************************)
InitDetector ==
    /\ variant \in {"ordered", "unordered"}
    /\ now = Epoch
    /\ detection_callback = FALSE
    /\ frequency_detection_times = [f \in TargetSet |-> <<>>]
    /\ last_detection_time = 0
    /\ current_state = WAITING
    /\ state_transition_time = Epoch
    /\ current_frequency_index = 0
    /\ detected_frequencies = <<>>
    /\ fire_times = <<>>
    /\ last_call = NoCall
    /\ presented = [direct |-> 0, harmonic |-> 0]
    /\ script = [p |-> 0, start |-> 0]
    /\ blocks_fed = 0
    /\ enable_time_pause = FALSE
    /\ pause_start_hour = 0
    /\ pause_end_hour = 0
    /\ audio_buffer = <<>>
    /\ samples_ingested = 0
    /\ DtwIdle
    /\ AnalyzerIdle
    /\ CaptureIdle
    /\ ServiceIdle

(***************************************************************************)
(* Operations                                                              *)
(***************************************************************************)
\* set_detection_callback(callback); callback = None is c = FALSE
set_detection_callback(c) ==
    /\ detection_callback' = c
    /\ UNCHANGED <<variant, now, frequency_detection_times, last_detection_time,
                   current_state, state_transition_time, current_frequency_index,
                   detected_frequencies, fire_times, last_call, presented, script,
                   blocks_fed, patternVars, dtwVars, analyzerVars, captureVars, serviceVars>>

\* mutant: the early return dropped
ReturnsEarly_Dropped == FALSE

\* `if not self.detection_callback: return`
ReturnsEarly == ~detection_callback

\* process_audio_chunk without a callback: the call returns at once
ProcessWithoutCallback(b) ==
    /\ last_call' = [NoCall EXCEPT !.quiet = Quiet(b)]
    /\ presented' = PresentedAfter(presented, b)
    /\ blocks_fed' = BlocksFedAfter
    /\ script' = Deviated
    /\ UNCHANGED <<variant, now, detection_callback, frequency_detection_times,
                   last_detection_time, current_state, state_transition_time,
                   current_frequency_index, detected_frequencies, fire_times,
                   patternVars, dtwVars, analyzerVars, captureVars, serviceVars>>

\* mutant: the throttle timestamp moved by every match, fired or suppressed
ThrottleStamp_OnMatch(matched, fires, current_time, last) ==
    IF matched THEN current_time ELSE last

\* last_detection_time after the throttle test: `self.last_detection_time =
\* current_time` stands in the branch that invokes the callback only
ThrottleStamp(matched, fires, current_time, last) ==
    IF fires THEN current_time ELSE last

\* src/sound_detector.py: process_audio_chunk with a callback, at time t
ProcessOrdered(b, t) ==
    LET det == detect_target_frequencies("ordered", frequency_detection_times, b, t)
        m1 == update_state_machine(Machine, det.detected, t, t)
        matched == (m1.state = COMPLETED)
        fires == matched /\ ThrottleAllows(t, last_detection_time)
        m2 == IF matched THEN AfterCompleted(m1, fires, t) ELSE m1
    IN  /\ frequency_detection_times' = det.times
        /\ current_state' = m2.state
        /\ current_frequency_index' = m2.index
        /\ state_transition_time' = m2.trans
        /\ detected_frequencies' = m2.detected
        /\ last_detection_time' = ThrottleStamp(matched, fires, t, last_detection_time)
        /\ fire_times' = IF fires THEN Append(fire_times, t) ELSE fire_times
        /\ now' = t
        /\ last_call' = [quiet |-> Quiet(b), ran |-> TRUE, paused |-> FALSE,
                         matched |-> matched, fired |-> fires,
                         detected |-> det.detected]
        /\ presented' = PresentedAfter(presented, b)
        /\ blocks_fed' = BlocksFedAfter
        /\ script' = ScriptAfter(script, Machine, b, t, t)
        /\ UNCHANGED <<variant, detection_callback, patternVars, dtwVars, analyzerVars, captureVars, serviceVars>>

\* mutant: the number of detected targets not tested
EnoughMatching_Always(target_freqs) == TRUE

\* `if len(target_freqs) >= self.min_matching_frequencies`
EnoughMatching(target_freqs) ==
    Cardinality(target_freqs) >= MinMatchingFrequencies

\* src/sound_detect/sound_detector.py: process_audio_chunk with a callback,
\* at time t
ProcessUnordered(b, t) ==
    LET det == detect_target_frequencies("unordered", frequency_detection_times, b, t)
        matched == EnoughMatching(det.detected)
        fires == matched /\ ThrottleAllows(t, last_detection_time)
    IN  /\ frequency_detection_times' = det.times
        /\ last_detection_time' = ThrottleStamp(matched, fires, t, last_detection_time)
        /\ fire_times' = IF fires THEN Append(fire_times, t) ELSE fire_times
        /\ now' = t
        /\ last_call' = [quiet |-> Quiet(b), ran |-> TRUE, paused |-> FALSE,
                         matched |-> matched, fired |-> fires,
                         detected |-> det.detected]
        /\ presented' = PresentedAfter(presented, b)
        /\ blocks_fed' = BlocksFedAfter
        /\ script' = Deviated
        /\ UNCHANGED <<variant, detection_callback, current_state,
                       state_transition_time, current_frequency_index,
                       detected_frequencies, patternVars, dtwVars, analyzerVars, captureVars, serviceVars>>

\* process_audio_chunk(audio_data): the call comes gap ticks after the last
\* one that read the clock
process_audio_chunk(b) ==
    IF ReturnsEarly THEN ProcessWithoutCallback(b)
    ELSE \E gap \in 1..MaxGap :
            /\ now + gap <= MaxTime
            /\ IF variant = "ordered"
               THEN ProcessOrdered(b, now + gap)
               ELSE ProcessUnordered(b, now + gap)

RegisterCallback == \E c \in BOOLEAN : set_detection_callback(c)
ProcessChunk == \E b \in Blocks : process_audio_chunk(b)

(***************************************************************************)
(* Pattern detector (spec.md 4.5, 4.6; src/test_sound_detector.py) and the *)
(* DTW engine it calls (src/dtw_analyzer.py).  A sample is 0 or 1, so the  *)
(* peak normalisation of the feature extractor is exact; the cepstral      *)
(* transform is outside the model and a frame is one normalised sample.    *)
(***************************************************************************)
Samples == {0, 1}
\* samples per block fed to the pattern detector
PatternChunk == 1
\* capacity of the rolling buffer, in samples
PatternBufferSize == 2
PatternBlocks == {<<>>} \cup [1..PatternChunk -> Samples]
ReferenceAudio == [i \in 1..PatternBufferSize |-> i % 2]
Hours == 0..23

\* np.inf
Infinity == 1000000
\* similarity_threshold = 0.3:  1 - exp(-x) <= 0.3  iff  x <= -ln(0.7) = 0.3567
LogCutNum == 3567
LogCutDen == 10000

Min(a, b) == IF a <= b THEN a ELSE b

\* float('nan'): a value apart from every number and from np.inf
NaN == Infinity + 1

RECURSIVE MaxAbs(_)
MaxAbs(audio) ==
    IF Len(audio) = 0 THEN 0 ELSE Max(Abs(Head(audio)), MaxAbs(Tail(audio)))

\* (features - mean) / std: a coefficient that does not vary over the frames
\* has std 0 and becomes 0/0 = nan in every frame
NormalizeFeatures(features) ==
    IF \A i, j \in 1..Len(features) : features[i] = features[j]
    THEN [i \in 1..Len(features) |-> NaN]
    ELSE features

extract_features(audio_data) ==
    IF Len(audio_data) = 0 THEN <<>>
    ELSE LET max_val == MaxAbs(audio_data)
         IN  IF max_val > 0
             THEN NormalizeFeatures(
                      [i \in 1..Len(audio_data) |-> audio_data[i] \div max_val])
             ELSE <<>>

\* mutant: a distance that is not zero between equal frames
euclidean_Constant(a, b) == IF a = NaN \/ b = NaN THEN NaN ELSE 1

euclidean(a, b) == IF a = NaN \/ b = NaN THEN NaN ELSE Abs(a - b)

\* mutant: the insertion neighbour always taken
PyMin3_First(a, b, c) == a

\* a < b on floats: false when either side is nan
FloatLess(a, b) == a # NaN /\ b # NaN /\ a < b

\* Python's min(a, b, c): the first argument stays unless a later one is less
PyMin3(a, b, c) ==
    LET ab == IF FloatLess(b, a) THEN b ELSE a
    IN  IF FloatLess(c, ab) THEN c ELSE ab

\* cost + best on floats
FloatAdd(a, b) ==
    IF a = NaN \/ b = NaN THEN NaN
    ELSE IF a = Infinity \/ b = Infinity THEN Infinity
    ELSE a + b

\* np.full((n + 1, m + 1), np.inf) with dtw_matrix[0, 0] = 0
EmptyMatrix(n, m) ==
    [i \in 0..n, j \in 0..m |-> IF i = 0 /\ j = 0 THEN 0 ELSE Infinity]

\* `for j in range(j_start, j_end)`, from column j on, in row i of matrix D
RECURSIVE FillRow(_, _, _, _, _, _)
FillRow(D, seq1, seq2, i, j, j_end) ==
    IF j >= j_end THEN D
    ELSE LET cost == euclidean(seq1[i], seq2[j])
             cell == FloatAdd(cost, PyMin3(D[i - 1, j], D[i, j - 1], D[i - 1, j - 1]))
         IN  FillRow([D EXCEPT ![i, j] = cell], seq1, seq2, i, j + 1, j_end)

\* `for i in range(1, n + 1)`, from row i on
RECURSIVE FillRows(_, _, _, _, _)
FillRows(D, seq1, seq2, window_constraint, i) ==
    IF i > Len(seq1) THEN D
    ELSE LET j_start == Max(1, i - window_constraint)
             j_end == Min(Len(seq2) + 1, i + window_constraint + 1)
         IN  FillRows(FillRow(D, seq1, seq2, i, j_start, j_end),
                      seq1, seq2, window_constraint, i + 1)

\* the matrix when the loops of _dtw_distance_optimized have ended
dtw_matrix(seq1, seq2, window_constraint) ==
    FillRows(EmptyMatrix(Len(seq1), Len(seq2)), seq1, seq2, window_constraint, 1)

\* mutant: the window taken from the first sequence's length alone
default_window_constraint_First(n, m, ratio) ==
    IF (n * ratio[1]) \div ratio[2] >= 1 THEN (n * ratio[1]) \div ratio[2] ELSE 1

\* mutant: no band, the window as wide as the longer sequence
default_window_constraint_Wide(n, m, ratio) == Max(n, m)

\* max(1, int(max(n, m) * self.window_constraint_ratio)), ratio being
\* window_constraint_ratio as <<numerator, denominator>>
default_window_constraint(n, m, ratio) ==
    Max(1, (Max(n, m) * ratio[1]) \div ratio[2])

dtw_distance_optimized(seq1, seq2, ratio) ==
    LET n == Len(seq1)
        m == Len(seq2)
        window_constraint == default_window_constraint(n, m, ratio)
    IN  dtw_matrix(seq1, seq2, window_constraint)[n, m]

\* mutant: the short-circuit taken only when both sequences are empty
EmptyInput_Both(seq1_features, seq2_features) ==
    Len(seq1_features) = 0 /\ Len(seq2_features) = 0

\* `if len(seq1_features) == 0 or len(seq2_features) == 0`
EmptyInput(seq1_features, seq2_features) ==
    Len(seq1_features) = 0 \/ Len(seq2_features) = 0

\* mutant: no except clause
CatchesException_Not == FALSE

\* `except Exception as e: ... return 1.0`
CatchesException == TRUE

\* calculate_similarity_features; raises tells whether the DTW computation
\* inside the try block raises
calculate_similarity_features(seq1_features, seq2_features, ratio, raises) ==
    IF EmptyInput(seq1_features, seq2_features) THEN Similarity("one", 0, 1, FALSE)
    ELSE IF raises
         THEN IF CatchesException THEN Similarity("one", 0, 1, FALSE)
              ELSE Similarity("raised", 0, 1, FALSE)
    ELSE LET distance == dtw_distance_optimized(seq1_features, seq2_features, ratio)
             total == Len(seq1_features) + Len(seq2_features)
         IN  IF distance = NaN THEN Similarity("nan", 0, 1, TRUE)
             ELSE IF distance = Infinity THEN Similarity("one", 0, 1, TRUE)
             ELSE Similarity("value", distance, total, TRUE)

\* calculate_similarity_features(seq1, seq2) <= similarity_threshold
SimilarityWithinThreshold(seq1, seq2) ==
    LET score == calculate_similarity_features(seq1, seq2, DefaultRatio, FALSE)
    IN  /\ score.kind = "value"
        /\ score.num * LogCutDen <= LogCutNum * score.den

reference_features == extract_features(ReferenceAudio)

\* the full buffers the matcher accepts
MatchingBuffers ==
    {buffer \in [1..PatternBufferSize -> Samples] :
        SimilarityWithinThreshold(extract_features(buffer), reference_features)}

\* mutant: every full buffer reported as a match, the similarity not consulted
detect_pattern_similarity_AnyFull(buffer) == Len(buffer) >= PatternBufferSize

detect_pattern_similarity(buffer) ==
    /\ Len(buffer) >= PatternBufferSize
    /\ buffer \in MatchingBuffers

\* mutant: nothing is evicted
Extend_NoEviction(buffer, b) == buffer \o b

\* mutant: the block is not appended
Extend_Discarded(buffer, b) == buffer

\* deque(maxlen = buffer_size).extend
Extend(buffer, b) ==
    LET all == buffer \o b
    IN  IF Len(all) > PatternBufferSize
        THEN SubSeq(all, Len(all) - PatternBufferSize + 1, Len(all))
        ELSE all

\* the number of samples ingested once b is ingested too, counted up to one
\* more than the capacity
SamplesIngestedAfter(b) ==
    Min(samples_ingested + Len(b), PatternBufferSize + 1)

\* mutant: the window never wraps round midnight
is_in_pause_window_NoWrap(hour) ==
    /\ enable_time_pause
    /\ pause_start_hour <= hour
    /\ hour < pause_end_hour

is_in_pause_window(hour) ==
    /\ enable_time_pause
    /\ IF pause_start_hour <= pause_end_hour
       THEN pause_start_hour <= hour /\ hour < pause_end_hour
       ELSE hour >= pause_start_hour \/ hour < pause_end_hour

\* mutant: the time gate ignored
PauseSkips_Ignored(hour) == FALSE

\* `if self._is_in_pause_window(): return`
PauseSkips(hour) == is_in_pause_window(hour)

\* The hours from start up to, not including, end, counted round the clock.
WindowHours(start, end) ==
    {(start + k) % 24 : k \in 0..(((end - start) % 24) - 1)}

\* the configurations the detector is constructed with, and the hours at
\* which calls are made: both sides of each window's ends
PauseWindows == {<<22, 8>>, <<14, 18>>, <<8, 8>>, <<0, 23>>}
PauseConfigs == {<<FALSE, 22, 8>>} \cup {<<TRUE, w[1], w[2]>> : w \in PauseWindows}
CallHours == {0, 7, 8, 14, 18, 22, 23}

InitPattern ==
    /\ variant = "pattern"
    /\ now = Epoch
    /\ detection_callback = FALSE
    /\ frequency_detection_times = [f \in TargetSet |-> <<>>]
    /\ last_detection_time = 0
    /\ current_state = WAITING
    /\ state_transition_time = Epoch
    /\ current_frequency_index = 0
    /\ detected_frequencies = <<>>
    /\ fire_times = <<>>
    /\ last_call = NoCall
    /\ presented = [direct |-> 0, harmonic |-> 0]
    /\ script = [p |-> 0, start |-> 0]
    /\ blocks_fed = 0
    /\ \E c \in PauseConfigs :
          /\ enable_time_pause = c[1]
          /\ pause_start_hour = c[2]
          /\ pause_end_hour = c[3]
    /\ audio_buffer = <<>>
    /\ samples_ingested = 0
    /\ DtwIdle
    /\ AnalyzerIdle
    /\ CaptureIdle
    /\ ServiceIdle

PatternFrame ==
    UNCHANGED <<variant, frequency_detection_times, current_state,
                state_transition_time, current_frequency_index,
                detected_frequencies, presented, script, blocks_fed,
                enable_time_pause, pause_start_hour, pause_end_hour, dtwVars, analyzerVars, captureVars, serviceVars>>

SetPatternCallback ==
    /\ \E c \in BOOLEAN : detection_callback' = c
    /\ PatternFrame
    /\ UNCHANGED <<now, last_detection_time, fire_times, last_call, audio_buffer,
                   samples_ingested>>

\* process_audio_chunk of the pattern detector: block b, wall-clock hour
\* `hour`, time.time() reading t.
PatternWithoutCallback ==
    /\ last_call' = NoCall
    /\ PatternFrame
    /\ UNCHANGED <<now, detection_callback, last_detection_time, fire_times,
                   audio_buffer, samples_ingested>>

PatternPaused(b, hour) ==
    /\ last_call' = [NoCall EXCEPT
                        !.paused = enable_time_pause
                                   /\ hour \in WindowHours(pause_start_hour,
                                                           pause_end_hour),
                        !.matched = detect_pattern_similarity(Extend(audio_buffer, b))]
    /\ PatternFrame
    /\ UNCHANGED <<now, detection_callback, last_detection_time, fire_times,
                   audio_buffer, samples_ingested>>

PatternProcessed(b, hour, t) ==
    LET buffer  == Extend(audio_buffer, b)
        matched == detect_pattern_similarity(buffer)
        fires   == matched /\ ThrottleAllows(t, last_detection_time)
    IN  /\ now' = t
        /\ audio_buffer' = buffer
        /\ samples_ingested' = SamplesIngestedAfter(b)
        /\ last_detection_time' = IF fires THEN t ELSE last_detection_time
        /\ fire_times' = IF fires THEN Append(fire_times, t) ELSE fire_times
        /\ last_call' = [quiet |-> MaxAbs(b) = 0, ran |-> TRUE,
                         paused |-> enable_time_pause
                                    /\ hour \in WindowHours(pause_start_hour,
                                                            pause_end_hour),
                         matched |-> matched, fired |-> fires, detected |-> {}]
        /\ PatternFrame
        /\ UNCHANGED detection_callback

pattern_process_audio_chunk(b, hour) ==
    IF ReturnsEarly THEN PatternWithoutCallback
    ELSE IF PauseSkips(hour) THEN PatternPaused(b, hour)
    ELSE \E gap \in 1..MaxGap :
            /\ now + gap <= MaxTime
            /\ PatternProcessed(b, hour, now + gap)

ProcessPatternChunk ==
    \E b \in PatternBlocks, hour \in CallHours : pattern_process_audio_chunk(b, hour)

NextPattern == SetPatternCallback \/ ProcessPatternChunk
SpecPattern == InitPattern /\ [][NextPattern]_vars

(***************************************************************************)
(* The pattern detector fed for ever.  The clock readings stop rising at   *)
(* MaxTime, so calls never cease, and the blocks keep coming: a call with  *)
(* a non-empty block, a callback registered and the hour outside the pause *)
(* window cannot stay possible for ever without being made.                *)
(***************************************************************************)
fed_process_audio_chunk(b, hour) ==
    IF ReturnsEarly THEN PatternWithoutCallback
    ELSE IF PauseSkips(hour) THEN PatternPaused(b, hour)
    ELSE \E gap \in 1..MaxGap : PatternProcessed(b, hour, Min(now + gap, MaxTime))

\* an hour inside and an hour outside of every window of PauseWindows
FedHours == {14, 23}

FeedPatternChunk ==
    \E b \in PatternBlocks, hour \in FedHours : fed_process_audio_chunk(b, hour)

\* a call that ingests a non-empty block
IngestChunk ==
    \E b \in PatternBlocks \ {<<>>}, hour \in FedHours :
        /\ ~ReturnsEarly
        /\ ~PauseSkips(hour)
        /\ fed_process_audio_chunk(b, hour)

NextPatternFed == SetPatternCallback \/ FeedPatternChunk
SpecPatternFed == InitPattern /\ [][NextPatternFed]_vars /\ WF_vars(IngestChunk)

(***************************************************************************)
(* The DTW analyzer on its own (src/dtw_analyzer.py): an analyzer is       *)
(* constructed with a reference clip and a window ratio, and               *)
(* calculate_similarity is called once with an audio pattern.              *)
(***************************************************************************)
\* longest clip, in samples
MaxSeqLen == 4
AudioClips == UNION {[1..n -> Samples] : n \in 0..MaxSeqLen}
Ratios == {<<1, 10>>, <<1, 2>>, <<1, 1>>}
Faults == {"none", "extract", "dtw"}

\* calculate_similarity(audio_pattern); a fault of the extraction is raised
\* by the cepstral transform, which an empty or silent pattern never reaches
calculate_similarity(audio_pattern, fault) ==
    IF fault = "extract" /\ MaxAbs(audio_pattern) > 0
    THEN Similarity("raised", 0, 1, FALSE)
    ELSE calculate_similarity_features(extract_features(audio_pattern),
                                       extract_features(dtw_reference),
                                       window_constraint_ratio,
                                       fault = "dtw")

InitDtw ==
    /\ variant = "dtw"
    /\ now = Epoch
    /\ detection_callback = FALSE
    /\ frequency_detection_times = [f \in TargetSet |-> <<>>]
    /\ last_detection_time = 0
    /\ current_state = WAITING
    /\ state_transition_time = Epoch
    /\ current_frequency_index = 0
    /\ detected_frequencies = <<>>
    /\ fire_times = <<>>
    /\ last_call = NoCall
    /\ presented = [direct |-> 0, harmonic |-> 0]
    /\ script = [p |-> 0, start |-> 0]
    /\ blocks_fed = 0
    /\ enable_time_pause = FALSE
    /\ pause_start_hour = 0
    /\ pause_end_hour = 0
    /\ audio_buffer = <<>>
    /\ samples_ingested = 0
    /\ window_constraint_ratio \in Ratios
    /\ dtw_reference \in AudioClips
    /\ dtw_pattern \in AudioClips
    /\ dtw_fault \in Faults
    /\ dtw_similarity = NoSimilarity
    /\ AnalyzerIdle
    /\ CaptureIdle
    /\ ServiceIdle

CalculateSimilarity ==
    /\ dtw_similarity = NoSimilarity
    /\ dtw_similarity' = calculate_similarity(dtw_pattern, dtw_fault)
    /\ UNCHANGED <<freqVars, patternVars, window_constraint_ratio, dtw_reference,
                   dtw_pattern, dtw_fault, analyzerVars, captureVars, serviceVars>>

NextDtw == CalculateSimilarity
SpecDtw == InitDtw /\ [][NextDtw]_vars

(***************************************************************************)
(* The spectral analyzer on its own: the block and num_peaks are drawn,    *)
(* find_dominant_frequencies is applied to them.  The program passes 10    *)
(* and 20 for num_peaks; the counts drawn here are positive like these.    *)
(***************************************************************************)
MaxMagnitude == 2
MaxPeaks == 6

AnalyzerInputs ==
    {EmptyAudio} \cup {AudioData(FALSE, m) : m \in [Freqs -> 0..MaxMagnitude]}

InitAnalyzer ==
    /\ variant = "analyzer"
    /\ now = Epoch
    /\ detection_callback = FALSE
    /\ frequency_detection_times = [f \in TargetSet |-> <<>>]
    /\ last_detection_time = 0
    /\ current_state = WAITING
    /\ state_transition_time = Epoch
    /\ current_frequency_index = 0
    /\ detected_frequencies = <<>>
    /\ fire_times = <<>>
    /\ last_call = NoCall
    /\ presented = [direct |-> 0, harmonic |-> 0]
    /\ script = [p |-> 0, start |-> 0]
    /\ blocks_fed = 0
    /\ enable_time_pause = FALSE
    /\ pause_start_hour = 0
    /\ pause_end_hour = 0
    /\ audio_buffer = <<>>
    /\ samples_ingested = 0
    /\ DtwIdle
    /\ fa_audio_data \in AnalyzerInputs
    /\ fa_num_peaks \in 1..MaxPeaks
    /\ fa_peaks = NoPeaks
    /\ CaptureIdle
    /\ ServiceIdle

FindDominantFrequencies ==
    /\ ~fa_peaks.done
    /\ fa_peaks' = [done |-> TRUE,
                    peaks |-> peak_frequencies(Magnitude(fa_audio_data), fa_num_peaks)]
    /\ UNCHANGED <<freqVars, patternVars, dtwVars, fa_audio_data, fa_num_peaks,
                   captureVars, serviceVars>>

NextAnalyzer == FindDominantFrequencies
SpecAnalyzer == InitAnalyzer /\ [][NextAnalyzer]_vars

(***************************************************************************)
(* AudioCapture: the capture thread running _capture_loop and the thread   *)
(* that calls start_capture and stop_capture.  The two interleave between  *)
(* statements; a load or a store of an attribute is one step.  The caller  *)
(* starts the capture once, as src/main.py and src/app.py do, and may call *)
(* stop_capture more than once (__del__ calls it again).                   *)
(***************************************************************************)
MaxStops == 2
MaxDelivered == 3

InitCapture ==
    /\ variant = "capture"
    /\ now = Epoch
    /\ detection_callback = FALSE
    /\ frequency_detection_times = [f \in TargetSet |-> <<>>]
    /\ last_detection_time = 0
    /\ current_state = WAITING
    /\ state_transition_time = Epoch
    /\ current_frequency_index = 0
    /\ detected_frequencies = <<>>
    /\ fire_times = <<>>
    /\ last_call = NoCall
    /\ presented = [direct |-> 0, harmonic |-> 0]
    /\ script = [p |-> 0, start |-> 0]
    /\ blocks_fed = 0
    /\ enable_time_pause = FALSE
    /\ pause_start_hour = 0
    /\ pause_end_hour = 0
    /\ audio_buffer = <<>>
    /\ samples_ingested = 0
    /\ DtwIdle
    /\ AnalyzerIdle
    /\ CaptureIdle
    /\ ServiceIdle

CaptureFrame ==
    UNCHANGED <<freqVars, patternVars, dtwVars, analyzerVars, restartVars, serviceVars>>

\* start_capture, when audio.open succeeds: the stream is opened, the flag
\* set and the thread started (when open raises nothing changes)
StartCapture ==
    /\ loop_pc = "unstarted"
    /\ stop_pc = "idle"
    /\ ~is_capturing
    /\ stream' = "open"
    /\ is_capturing' = TRUE
    /\ capture_thread' = "thread"
    /\ loop_pc' = "test"
    /\ UNCHANGED <<loop_audio_data, stop_pc, stop_calls, delivered, delivered_after_stop>>
    /\ CaptureFrame

\* `while self.is_capturing`
LoopContinues_Always == TRUE
LoopContinues == is_capturing

LoopTest ==
    /\ loop_pc = "test"
    /\ loop_pc' = IF LoopContinues THEN "read" ELSE "exited"
    /\ UNCHANGED <<is_capturing, capture_thread, stream, loop_audio_data, stop_pc,
                   stop_calls, delivered, delivered_after_stop>>
    /\ CaptureFrame

\* _read_audio_chunk: the block read, or None when stream.read raises, as it
\* does on the stream that stop_capture has closed and set to None
LoopRead ==
    /\ loop_pc = "read"
    /\ loop_audio_data' \in (IF stream = "open" THEN {"block", "none"} ELSE {"none"})
    /\ loop_pc' = "assert"
    /\ UNCHANGED <<is_capturing, capture_thread, stream, stop_pc, stop_calls,
                   delivered, delivered_after_stop>>
    /\ CaptureFrame

\* `assert audio_data is not None`: the AssertionError ends the thread
LoopAssert ==
    /\ loop_pc = "assert"
    /\ loop_pc' = IF loop_audio_data = "none" THEN "failed" ELSE "callback"
    /\ UNCHANGED <<is_capturing, capture_thread, stream, loop_audio_data, stop_pc,
                   stop_calls, delivered, delivered_after_stop>>
    /\ CaptureFrame

\* audio_callback(audio_data): it returns, or it raises (the detector or the
\* trigger callback it invokes does) and the exception ends the thread, the
\* loop having no handler
LoopCallback ==
    /\ loop_pc = "callback"
    /\ delivered' = IF delivered < MaxDelivered THEN delivered + 1 ELSE delivered
    /\ delivered_after_stop' =
           IF ~is_capturing /\ delivered_after_stop < MaxDelivered
           THEN delivered_after_stop + 1 ELSE delivered_after_stop
    /\ loop_pc' \in {"test", "failed"}
    /\ UNCHANGED <<is_capturing, capture_thread, stream, loop_audio_data, stop_pc,
                   stop_calls>>
    /\ CaptureFrame

LoopStep == LoopTest \/ LoopRead \/ LoopAssert \/ LoopCallback

\* stop_capture, `self.is_capturing = False`
StopClearFlag ==
    /\ stop_pc = "idle"
    /\ stop_calls < MaxStops
    /\ is_capturing' = FALSE
    /\ stop_calls' = stop_calls + 1
    /\ stop_pc' = "join"
    /\ UNCHANGED <<capture_thread, stream, loop_pc, loop_audio_data, delivered,
                   delivered_after_stop>>
    /\ CaptureFrame

\* `if self.capture_thread: join(timeout=1.0); self.capture_thread = None`:
\* join returns when the thread has ended or when the second has passed,
\* whichever the timing gives
StopJoin ==
    /\ stop_pc = "join"
    /\ capture_thread' = "none"
    /\ stop_pc' = "close"
    /\ UNCHANGED <<is_capturing, stream, loop_pc, loop_audio_data, stop_calls,
                   delivered, delivered_after_stop>>
    /\ CaptureFrame

\* `if self.stream: stop_stream(); close(); self.stream = None`
StopCloseStream ==
    /\ stop_pc = "close"
    /\ stream' = "none"
    /\ stop_pc' = "idle"
    /\ UNCHANGED <<is_capturing, capture_thread, loop_pc, loop_audio_data, stop_calls,
                   delivered, delivered_after_stop>>
    /\ CaptureFrame

LoopRunning == loop_pc \in {"test", "read", "assert", "callback"}
LoopTerminated == loop_pc \in {"exited", "failed"}

NextCapture ==
    \/ StartCapture
    \/ LoopTest
    \/ LoopRead
    \/ LoopAssert
    \/ LoopCallback
    \/ StopClearFlag
    \/ StopJoin
    \/ StopCloseStream

\* the capture thread is scheduled, stream.read returns or raises and the
\* audio callback returns: a step of the loop that can be taken is taken
SpecCapture == InitCapture /\ [][NextCapture]_vars /\ WF_vars(LoopStep)

(***************************************************************************)
(* AudioCapture started and stopped again and again by one caller.  A      *)
(* thread whose join timed out goes on running its loop beside the thread  *)
(* that the next start_capture starts; both read self.is_capturing and     *)
(* self.stream of the one instance.                                        *)
(***************************************************************************)
MaxStarts == 3
RunningPcs == {"test", "read", "assert", "callback"}

\* start_capture: already capturing, or audio.open raises (opened = FALSE),
\* or the stream is opened, the flag set and a new thread started
start_capture(opened) ==
    /\ stop_pc = "idle"
    /\ start_calls < MaxStarts
    /\ start_calls' = start_calls + 1
    /\ IF is_capturing
       THEN /\ start_returned' = "true"
            /\ UNCHANGED <<is_capturing, capture_thread, stream, loop_pc,
                           loop_audio_data, earlier_loops>>
       ELSE IF ~opened
       THEN /\ start_returned' = "false"
            /\ UNCHANGED <<is_capturing, capture_thread, stream, loop_pc,
                           loop_audio_data, earlier_loops>>
       ELSE /\ stream' = "open"
            /\ is_capturing' = TRUE
            /\ capture_thread' = "thread"
            /\ loop_pc' = "test"
            /\ loop_audio_data' = "unset"
            /\ earlier_loops' =
                   IF loop_pc = "unstarted" THEN earlier_loops
                   ELSE Append(earlier_loops,
                               [pc |-> loop_pc, audio_data |-> loop_audio_data])
            /\ start_returned' = "true"
    /\ UNCHANGED <<stop_pc, stop_calls, delivered, delivered_after_stop>>
    /\ UNCHANGED <<freqVars, patternVars, dtwVars, analyzerVars, serviceVars>>

StartCaptureCall == \E opened \in BOOLEAN : start_capture(opened)

\* one step of _capture_loop taken by a thread at l: the positions and
\* audio_data values it can be left with
capture_loop_step(l) ==
    CASE l.pc = "test" ->
            {[l EXCEPT !.pc = IF LoopContinues THEN "read" ELSE "exited"]}
      [] l.pc = "read" ->
            {[pc |-> "assert", audio_data |-> d] :
                d \in (IF stream = "open" THEN {"block", "none"} ELSE {"none"})}
      [] l.pc = "assert" ->
            {[l EXCEPT !.pc = IF l.audio_data = "none" THEN "failed" ELSE "callback"]}
      [] l.pc = "callback" -> {[l EXCEPT !.pc = "test"], [l EXCEPT !.pc = "failed"]}
      [] OTHER -> {}

\* a step of a thread started before the latest one
EarlierLoopStep ==
    \E i \in DOMAIN earlier_loops :
        \E l \in capture_loop_step(earlier_loops[i]) :
            /\ earlier_loops' = [earlier_loops EXCEPT ![i] = l]
            /\ delivered' = IF earlier_loops[i].pc = "callback" /\ delivered < MaxDelivered
                            THEN delivered + 1 ELSE delivered
            /\ delivered_after_stop' =
                   IF earlier_loops[i].pc = "callback" /\ ~is_capturing
                      /\ delivered_after_stop < MaxDelivered
                   THEN delivered_after_stop + 1 ELSE delivered_after_stop
            /\ UNCHANGED <<is_capturing, capture_thread, stream, loop_pc,
                           loop_audio_data, stop_pc, stop_calls, start_calls,
                           start_returned>>
            /\ UNCHANGED <<freqVars, patternVars, dtwVars, analyzerVars, serviceVars>>

\* the capture threads that are inside _capture_loop
RunningLoops ==
    (IF LoopRunning THEN 1 ELSE 0)
    + Cardinality({i \in DOMAIN earlier_loops : earlier_loops[i].pc \in RunningPcs})

\* the capture threads that are inside audio_callback
LoopsInCallback ==
    (IF loop_pc = "callback" THEN 1 ELSE 0)
    + Cardinality({i \in DOMAIN earlier_loops : earlier_loops[i].pc = "callback"})

NextRestart ==
    \/ StartCaptureCall
    \/ LoopTest
    \/ LoopRead
    \/ LoopAssert
    \/ LoopCallback
    \/ EarlierLoopStep
    \/ StopClearFlag
    \/ StopJoin
    \/ StopCloseStream

SpecRestart == InitCapture /\ [][NextRestart]_vars

(***************************************************************************)
(* The unlock service: the OTP store (src/otp_manager.py, and the store of *)
(* src/servo_controller/app.py), the detection event that issues a code,   *)
(* and the HTTP handler threads that serve unlock requests.  Every access  *)
(* to the store holds the lock, so one locked section is one step; the     *)
(* handlers and the detection event interleave between the sections, and   *)
(* the clock ticks between the steps.                                      *)
(***************************************************************************)
\* expiry_seconds, in ticks
ExpirySeconds == 2
\* the clock of the service runs from Epoch to Epoch + OtpHorizon
OtpHorizon == 4
MaxIssued == 2

Services == {"app", "servo_app"}

\* mutant: no code ever expires
Expired_Never(timestamp, current_time) == FALSE

\* `current_time - timestamp > timedelta(seconds=self.expiry_seconds)`
Expired(timestamp, current_time) == current_time - timestamp > ExpirySeconds

\* mutant: an accepted code left in the store
Delete_Kept(store, otp) == store

\* `del self.otps[otp]`
Delete(store, otp) == [store EXCEPT ![otp] = Absent]

\* _cleanup_expired_otps: the store without its expired codes
cleanup_expired_otps(store, current_time) ==
    [c \in Codes |->
        IF store[c] # Absent /\ Expired(store[c], current_time) THEN Absent ELSE store[c]]

\* the locked section of validate_otp: what it returns and the store it
\* leaves; an expired code is deleted and rejected, a valid one deleted and
\* accepted
validate_locked(store, otp, current_time) ==
    IF store[otp] = Absent THEN [ok |-> FALSE, otps |-> store]
    ELSE IF Expired(store[otp], current_time)
         THEN [ok |-> FALSE, otps |-> [store EXCEPT ![otp] = Absent]]
    ELSE [ok |-> TRUE, otps |-> Delete(store, otp)]

\* mutant: the servo moved whatever the validation said
Rejected_Never(ok) == FALSE

\* `if not app.otp_manager.validate_otp(otp): return ..., 401`
Rejected(ok) == ~ok

InitOtp ==
    /\ variant \in Services
    /\ now = Epoch
    /\ detection_callback = TRUE
    /\ frequency_detection_times = [f \in TargetSet |-> <<>>]
    /\ last_detection_time = 0
    /\ current_state = WAITING
    /\ state_transition_time = Epoch
    /\ current_frequency_index = 0
    /\ detected_frequencies = <<>>
    /\ fire_times = <<>>
    /\ last_call = NoCall
    /\ presented = [direct |-> 0, harmonic |-> 0]
    /\ script = [p |-> 0, start |-> 0]
    /\ blocks_fed = 0
    /\ enable_time_pause = FALSE
    /\ pause_start_hour = 0
    /\ pause_end_hour = 0
    /\ audio_buffer = <<>>
    /\ samples_ingested = 0
    /\ DtwIdle
    /\ AnalyzerIdle
    /\ CaptureIdle
    /\ ServiceIdle

OtpFrame ==
    UNCHANGED <<variant, detection_callback, frequency_detection_times,
                last_detection_time, current_state, state_transition_time,
                current_frequency_index, detected_frequencies, fire_times,
                last_call, presented, script, blocks_fed, patternVars, dtwVars,
                analyzerVars, captureVars>>

\* time passes
OtpTick ==
    /\ now < Epoch + OtpHorizon
    /\ now' = now + 1
    /\ UNCHANGED serviceVars
    /\ OtpFrame

\* the detection event: on_detection calls generate_otp, which stores the
\* drawn code with the time of issue (a code drawn again is stored anew); in
\* servo_app the /generate-otp request cleans the store up first
generate_otp(otp) ==
    /\ issued < MaxIssued
    /\ otps' = [(IF variant = "servo_app" THEN cleanup_expired_otps(otps, now) ELSE otps)
                   EXCEPT ![otp] = now]
    /\ issued' = issued + 1
    /\ accepted_since_issue' = [accepted_since_issue EXCEPT ![otp] = 0]
    /\ UNCHANGED <<now, handlers, unlocks>>
    /\ OtpFrame

OnDetection == \E otp \in Codes : generate_otp(otp)

\* a handler receives an unlock request.  app (perform_unlock): a request
\* without otp is answered 400, any other goes on to validate_otp.  servo_app
\* (unlock): the store is cleaned up, then a request without otp or with a
\* missing or bad angle is answered 400, any other goes on to the check.
ReceiveUnlock(h, otp, angle_ok) ==
    /\ handlers[h].pc = "idle"
    /\ IF variant = "app"
       THEN /\ angle_ok
            /\ handlers' = [handlers EXCEPT ![h] =
                   IF otp = NoOtp
                   THEN [pc |-> "idle", otp |-> otp, response |-> "400"]
                   ELSE [pc |-> "cleanup", otp |-> otp, response |-> "none"]]
            /\ UNCHANGED otps
       ELSE /\ handlers' = [handlers EXCEPT ![h] =
                   IF otp = NoOtp \/ ~angle_ok
                   THEN [pc |-> "idle", otp |-> otp, response |-> "400"]
                   ELSE [pc |-> "check", otp |-> otp, response |-> "none"]]
            /\ otps' = cleanup_expired_otps(otps, now)
    /\ UNCHANGED <<now, issued, accepted_since_issue, unlocks>>
    /\ OtpFrame

\* validate_otp, `self._cleanup_expired_otps()`
ValidateCleanup(h) ==
    /\ handlers[h].pc = "cleanup"
    /\ otps' = cleanup_expired_otps(otps, now)
    /\ handlers' = [handlers EXCEPT ![h].pc = "check"]
    /\ UNCHANGED <<now, issued, accepted_since_issue, unlocks>>
    /\ OtpFrame

\* the locked check; a rejected request is answered 401
ValidateCheck(h) ==
    LET otp == handlers[h].otp
        v   == validate_locked(otps, otp, now)
    IN  /\ handlers[h].pc = "check"
        /\ otps' = v.otps
        /\ accepted_since_issue' =
               IF v.ok /\ accepted_since_issue[otp] < 2
               THEN [accepted_since_issue EXCEPT ![otp] = @ + 1]
               ELSE accepted_since_issue
        /\ handlers' = [handlers EXCEPT ![h] =
               IF Rejected(v.ok)
               THEN [pc |-> "idle", otp |-> otp, response |-> "401"]
               ELSE [pc |-> "unlock", otp |-> otp, response |-> "none"]]
        /\ UNCHANGED <<now, issued, unlocks>>
        /\ OtpFrame

\* the servo action, and the answer: success, or an error when the servo
\* driver raises
ServoUnlock(h) ==
    /\ handlers[h].pc = "unlock"
    /\ unlocks' = IF unlocks <= MaxIssued THEN unlocks + 1 ELSE unlocks
    /\ \E r \in {"success", "500"} :
          handlers' = [handlers EXCEPT ![h] =
                          [pc |-> "idle", otp |-> handlers[h].otp, response |-> r]]
    /\ UNCHANGED <<now, otps, issued, accepted_since_issue>>
    /\ OtpFrame

Receive == \E h \in Handlers, otp \in Codes \cup {NoOtp}, angle_ok \in BOOLEAN :
              ReceiveUnlock(h, otp, angle_ok)
Cleanup == \E h \in Handlers : ValidateCleanup(h)
Check == \E h \in Handlers : ValidateCheck(h)
Unlock == \E h \in Handlers : ServoUnlock(h)

NextOtp == OtpTick \/ OnDetection \/ Receive \/ Cleanup \/ Check \/ Unlock
SpecOtp == InitOtp /\ [][NextOtp]_vars

(***************************************************************************)
(* _detect_target_frequencies on its own, for either detector: the block   *)
(* is drawn as a spectrum whose bins are silent, faint, loud or a little   *)
(* louder than loud, so that a faint bin lies on or below the relative     *)
(* threshold; each record is empty or holds one earlier detection.         *)
(***************************************************************************)
Loud == DetectionThresholdDen
Faint == DetectionThresholdNum
Levels == {0, Faint, Loud, Loud + 1}

DetectInputs == {AudioData(FALSE, m) : m \in [Freqs -> Levels]}

InitDetect ==
    /\ variant \in {"ordered", "unordered"}
    /\ now = Epoch
    /\ detection_callback = TRUE
    /\ frequency_detection_times \in [TargetSet -> {<<>>, <<Epoch - 1>>}]
    /\ last_detection_time = 0
    /\ current_state = WAITING
    /\ state_transition_time = Epoch
    /\ current_frequency_index = 0
    /\ detected_frequencies = <<>>
    /\ fire_times = <<>>
    /\ last_call = NoCall
    /\ presented = [direct |-> 0, harmonic |-> 0]
    /\ script = [p |-> 0, start |-> 0]
    /\ blocks_fed = 0
    /\ enable_time_pause = FALSE
    /\ pause_start_hour = 0
    /\ pause_end_hour = 0
    /\ audio_buffer = <<>>
    /\ samples_ingested = 0
    /\ DtwIdle
    /\ fa_audio_data \in DetectInputs
    /\ fa_num_peaks = NumPeaks
    /\ fa_peaks = NoPeaks
    /\ CaptureIdle
    /\ ServiceIdle

DetectTargetFrequencies ==
    /\ ~last_call.ran
    /\ LET dominant_freqs == peak_frequencies(Magnitude(fa_audio_data), fa_num_peaks)
           det == detect_in_peaks(variant, frequency_detection_times, dominant_freqs, now)
       IN  /\ fa_peaks' = [done |-> TRUE, peaks |-> dominant_freqs]
           /\ frequency_detection_times' = det.times
           /\ last_call' = [NoCall EXCEPT !.ran = TRUE, !.detected = det.detected]
    /\ UNCHANGED <<variant, now, detection_callback, last_detection_time, current_state,
                   state_transition_time, current_frequency_index, detected_frequencies,
                   fire_times, presented, script, blocks_fed, patternVars, dtwVars,
                   fa_audio_data, fa_num_peaks, captureVars, serviceVars>>

NextDetect == DetectTargetFrequencies
SpecDetect == InitDetect /\ [][NextDetect]_vars

Init == InitDetector
Next == RegisterCallback \/ ProcessChunk
Spec == Init /\ [][Next]_vars

(***************************************************************************)
(* Properties of the frequency detectors (specification Spec)              *)
(***************************************************************************)

\* C1: any two invocations of the trigger callback lie at least
\* throttle_duration apart.
C1_ThrottleInvariant ==
    \A i, j \in 1..Len(fire_times) :
        i < j => fire_times[j] - fire_times[i] >= ThrottleDuration

\* the callback has fired twice
C1_Witness == Len(fire_times) >= 2

\* C2: a call with a silent or empty block reports no detection and does not
\* invoke the callback, whatever happened before.
C2_QuietNeverFires ==
    (last_call.ran /\ last_call.quiet) =>
        (last_call.detected = {} /\ ~last_call.matched /\ ~last_call.fired)

\* C3 as stated (ordered detector): the machine completes, and the callback
\* fires, only if the blocks heard so far carried the targets themselves in
\* list order.
C3_OutOfOrderNeverCompletes ==
    (variant = "ordered" /\ (last_call.matched \/ fire_times # <<>>)) =>
        presented.direct = NumTargets

\* C3 (ordered detector): the sequence index never runs ahead of the targets
\* the blocks heard so far have presented in list order, a block presenting a
\* target when it carries the target's frequency or its second or third
\* harmonic; so the machine completes and the callback fires only after
\* every target was presented, in list order, in that sense.
C3_OutOfOrderNeverCompletes_Harmonic ==
    variant = "ordered" =>
        /\ current_frequency_index <= presented.harmonic
        /\ (last_call.matched \/ current_state = COMPLETED \/ fire_times # <<>>) =>
              presented.harmonic = NumTargets

\* the last target was presented and reported while the first target itself
\* never was: the machine has not completed
C3_Witness ==
    /\ variant = "ordered"
    /\ last_call.ran
    /\ TargetFrequencies[NumTargets] \in last_call.detected
    /\ presented.direct = 0
    /\ presented.harmonic < NumTargets
    /\ current_state = WAITING
    /\ fire_times = <<>>

\* C5 (ordered detector): COMPLETED is never the state left behind by a call.
C5_CompletedIsReset ==
    current_state # COMPLETED

\* C6: no target is reported sustained-detected before min_detections blocks
\* have been fed to the detector.
C6_SustainedNeedsMinBlocks ==
    last_call.detected # {} => blocks_fed >= min_detections

\* C4 (ordered detector): presenting the targets in list order to a fresh
\* detector, each for min_detections blocks within detection_duration and
\* none later than state_timeout after the previous sustained detection,
\* invokes the callback before the presentation ends, and the call that
\* invokes it leaves the machine WAITING at index 0.
C4_InOrderCompletes ==
    variant = "ordered" =>
        /\ script.p = ScriptLength => fire_times # <<>>
        /\ (script.p >= 1 /\ last_call.fired) =>
               (current_state = WAITING /\ current_frequency_index = 0)

\* the last block of the presentation completed the sequence and fired
C4_Witness ==
    /\ variant = "ordered"
    /\ script.p = ScriptLength
    /\ last_call.fired
    /\ Len(fire_times) = 1

\* C7: a step taken while no callback is registered never fires, and a
\* process_audio_chunk call made then leaves the records, the sequence
\* index, the state, the transition time and the throttle timestamp alone.
C7_NoCallbackNoEffect ==
    [][~detection_callback =>
          /\ fire_times' = fire_times
          /\ ProcessChunk =>
                UNCHANGED <<frequency_detection_times, current_frequency_index,
                            current_state, state_transition_time,
                            detected_frequencies, last_detection_time>>]_vars

\* a block was fed after the callback had fired and had been unregistered
C7_Witness ==
    /\ ~detection_callback
    /\ ~last_call.ran
    /\ blocks_fed > 0
    /\ fire_times # <<>>

\* C8: the first match of a detector that never fired invokes the callback
\* in the same call, and no match within throttle_duration of that fire
\* invokes it again.
C8_FirstMatchFiresOnce ==
    /\ (last_call.ran /\ last_call.matched) => fire_times # <<>>
    /\ (fire_times # <<>> /\ now - fire_times[1] < ThrottleDuration) =>
           Len(fire_times) = 1

\* a further match within throttle_duration of the first fire was suppressed
C8_Witness ==
    /\ Len(fire_times) = 1
    /\ last_call.matched
    /\ ~last_call.fired
    /\ now - fire_times[1] < ThrottleDuration

\* C9 (pattern detector): with the time gate enabled an hour is suppressed
\* exactly when it lies among the hours from pause_start_hour up to, not
\* including, pause_end_hour, counted round the clock; window [22,8)
\* suppresses exactly 22,23,0..7 and window [14,18) exactly 14..17; with the
\* gate disabled no hour is suppressed.
C9_TimeGate ==
    LET suppressed == {h \in Hours : is_in_pause_window(h)}
    IN  /\ enable_time_pause =>
              suppressed = WindowHours(pause_start_hour, pause_end_hour)
        /\ (enable_time_pause /\ pause_start_hour = 22 /\ pause_end_hour = 8) =>
              suppressed = {22, 23} \cup 0..7
        /\ (enable_time_pause /\ pause_start_hour = 14 /\ pause_end_hour = 18) =>
              suppressed = 14..17
        /\ ~enable_time_pause => suppressed = {}

\* a call was skipped at an hour inside the window that spans midnight
C9_Witness ==
    /\ variant = "pattern"
    /\ last_call.paused
    /\ pause_start_hour = 22
    /\ pause_end_hour = 8

\* C10 (pattern detector): a call made at an hour inside the enabled pause
\* window invokes no callback and leaves the rolling buffer and the throttle
\* timestamp as they were, whatever the block.
C10_PausedCallSkipsAll ==
    [][last_call'.paused =>
          /\ fire_times' = fire_times
          /\ audio_buffer' = audio_buffer
          /\ last_detection_time' = last_detection_time]_vars

\* a paused call whose block would have completed a match, on a detector
\* that has a callback and has never fired
C10_Witness ==
    /\ variant = "pattern"
    /\ detection_callback
    /\ last_call.paused
    /\ last_call.matched
    /\ fire_times = <<>>

\* C11 (pattern detector): the rolling buffer never holds more samples than
\* its capacity, and from the moment more samples than the capacity have
\* been ingested it holds exactly its capacity after every block.
C11_RollingBufferBound ==
    /\ Len(audio_buffer) <= PatternBufferSize
    /\ samples_ingested > PatternBufferSize => Len(audio_buffer) = PatternBufferSize

\* more samples than the capacity were ingested, the last call ingested a
\* block
C11_Witness ==
    /\ variant = "pattern"
    /\ samples_ingested > PatternBufferSize
    /\ last_call.ran
    /\ ~last_call.quiet

\* whether calculate_similarity ran to its end without a fault raised, on a
\* pattern whose features equal the reference's and are not empty
SelfCompared ==
    /\ variant = "dtw"
    /\ dtw_similarity # NoSimilarity
    /\ dtw_fault = "none"
    /\ extract_features(dtw_pattern) # <<>>
    /\ extract_features(dtw_pattern) = extract_features(dtw_reference)

HasNaN(features) == \E i \in 1..Len(features) : features[i] = NaN

IsSilent(audio) == \A i \in 1..Len(audio) : audio[i] = 0

\* C13: when either feature sequence is empty the similarity is exactly 1.0
\* and no DTW distance is computed; an empty or silent clip has an empty
\* feature sequence, so a silent pattern, or a silent reference, scores
\* exactly 1.0 and the call does not raise.
C13_EmptyScoresOne ==
    (variant = "dtw" /\ dtw_similarity # NoSimilarity) =>
        /\ IsSilent(dtw_pattern) =>
              /\ extract_features(dtw_pattern) = <<>>
              /\ dtw_similarity = Similarity("one", 0, 1, FALSE)
        /\ IsSilent(dtw_reference) => extract_features(dtw_reference) = <<>>
        /\ (dtw_similarity.kind # "raised"
            /\ (extract_features(dtw_pattern) = <<>>
                \/ extract_features(dtw_reference) = <<>>)) =>
              dtw_similarity = Similarity("one", 0, 1, FALSE)
        /\ (IsSilent(dtw_reference) /\ dtw_fault # "extract") =>
              dtw_similarity = Similarity("one", 0, 1, FALSE)

\* a silent pattern that is not empty was compared with a reference that
\* is not silent
C13_Witness ==
    /\ variant = "dtw"
    /\ dtw_similarity = Similarity("one", 0, 1, FALSE)
    /\ Len(dtw_pattern) > 0
    /\ IsSilent(dtw_pattern)
    /\ extract_features(dtw_reference) # <<>>
    /\ dtw_fault = "none"

\* C14: an exception raised while the DTW distance is computed is caught
\* inside calculate_similarity_features and turned into the score 1.0; the
\* call returns, and the only calls that end with an exception are those in
\* which the feature extraction raised.
C14_DtwExceptionIsNoMatch ==
    (variant = "dtw" /\ dtw_similarity # NoSimilarity) =>
        /\ dtw_fault = "dtw" =>
              (dtw_similarity.kind = "one" /\ ~dtw_similarity.computed)
        /\ dtw_similarity.kind = "raised" => dtw_fault = "extract"

\* the DTW computation raised on two feature sequences that are not empty
C14_Witness ==
    /\ variant = "dtw"
    /\ dtw_fault = "dtw"
    /\ extract_features(dtw_pattern) # <<>>
    /\ extract_features(dtw_reference) # <<>>
    /\ dtw_similarity = Similarity("one", 0, 1, FALSE)

\* C15: for two feature sequences that are not empty, and no exception, the
\* accumulated DTW cost is finite and the similarity is a value strictly
\* below 1.0, whatever the two lengths and the window ratio.  Stated here
\* for sequences that hold no nan, which is the case the claim has in mind.
C15_NonEmptyBelowOne ==
    (/\ variant = "dtw"
     /\ dtw_similarity # NoSimilarity
     /\ dtw_fault = "none"
     /\ extract_features(dtw_pattern) # <<>>
     /\ extract_features(dtw_reference) # <<>>
     /\ ~HasNaN(extract_features(dtw_pattern))
     /\ ~HasNaN(extract_features(dtw_reference))) =>
        dtw_similarity.kind = "value"

C17_StopEndsDelivery ==
    /\ [](delivered_after_stop <= 1)
    /\ ((LoopRunning /\ ~is_capturing) ~> LoopTerminated)

\* the loop has delivered blocks before the stop and the block in progress
\* after it, and has left the while loop
C17_Witness ==
    /\ variant = "capture"
    /\ stop_calls > 0
    /\ delivered >= 2
    /\ delivered_after_stop = 1
    /\ loop_pc = "exited"

\* C18 (ordered detector): in every state the sequence index lies in 0..N,
\* N the number of target frequencies, and it is N exactly when the state is
\* COMPLETED.
C18_IndexInvariant ==
    variant = "ordered" =>
        /\ current_frequency_index \in 0..NumTargets
        /\ (current_frequency_index = NumTargets) <=> (current_state = COMPLETED)

\* a call has left the machine COMPLETED with the index at N (its callback
\* was held back by the throttle)
C18_Witness ==
    /\ variant = "ordered"
    /\ last_call.ran
    /\ current_state = COMPLETED
    /\ current_frequency_index = NumTargets
    /\ Len(detected_frequencies) = NumTargets

\* C19: a record is read, its length compared with min_detections, only in
\* a call that has just appended the call's time to it, and then every
\* timestamp in it is at least now - detection_duration: a target is
\* reported sustained-detected only on min_detections entries that all lie
\* within the window.
C19_RecordWithinWindow ==
    last_call.ran =>
        \A f \in TargetSet :
            LET rec == frequency_detection_times[f]
                read == \E i \in 1..Len(rec) : rec[i] = now
            IN  /\ read => \A i \in 1..Len(rec) : rec[i] >= now - DetectionDuration
                /\ f \in last_call.detected => (read /\ Len(rec) >= min_detections)

\* the first target was sustained-detected in an earlier call (the callback
\* has fired since), and the last call has appended its time to the target's
\* record and removed every older entry
C19_Witness ==
    /\ variant = "ordered"
    /\ last_call.ran
    /\ fire_times # <<>>
    /\ fire_times[Len(fire_times)] < now
    /\ frequency_detection_times[TargetFrequencies[1]] = <<now>>

\* C20 (ordered detector): a block processed while the machine is WAITING
\* with an index above 0 and more than state_timeout after the last
\* transition leaves the index 0 and the state WAITING and does not invoke
\* the callback, whatever the block contains; processed at index 0 after
\* the same delay, a block resets nothing: the index stays 0 with the
\* transition time, the state and the detected list as they were, or the
\* block advances the sequence.
C20_TimeoutResets ==
    [][(/\ variant = "ordered"
        /\ detection_callback
        /\ ProcessChunk
        /\ current_state = WAITING
        /\ now' - state_transition_time > StateTimeout) =>
           IF current_frequency_index > 0
           THEN /\ current_frequency_index' = 0
                /\ current_state' = WAITING
                /\ fire_times' = fire_times
                /\ ~last_call'.fired
           ELSE \/ /\ current_frequency_index' = 0
                   /\ UNCHANGED <<state_transition_time, current_state,
                                  detected_frequencies>>
                \/ /\ current_frequency_index' = 1
                   /\ TargetFrequencies[1] \in last_call'.detected]_vars

\* the last call sustained-detected the second target, which the machine was
\* waiting for, yet left the index at 0 with the transition time reset and
\* did not fire: the timeout came first
C20_Witness ==
    /\ variant = "ordered"
    /\ last_call.ran
    /\ TargetFrequencies[2] \in last_call.detected
    /\ current_frequency_index = 0
    /\ current_state = WAITING
    /\ state_transition_time = now
    /\ ~last_call.matched
    /\ ~last_call.fired

\* C21 (ordered detector): a block processed while the machine waits at an
\* index above 0, in which no target frequency is sustained-detected, leaves
\* the index 0 and the state WAITING and does not invoke the callback.
C21_LossOfContinuityResets ==
    [][(/\ variant = "ordered"
        /\ detection_callback
        /\ ProcessChunk
        /\ current_state = WAITING
        /\ current_frequency_index > 0
        /\ last_call'.detected = {}) =>
           /\ current_frequency_index' = 0
           /\ current_state' = WAITING
           /\ fire_times' = fire_times]_vars

\* C22 (ordered detector): a block processed (a step that reads the clock,
\* which only a call with a callback does) while the machine is WAITING at
\* an index i below N raises the index only if target i is sustained-detected
\* in that block, and then the state-transition time is the block's time and
\* the index is i + 1 (or 0 again when the sequence was thereby completed
\* and the callback fired); never by more than one; and when target i is not
\* sustained-detected the index stays as it is, whatever else is detected,
\* unless the timeout resets it.
C22_OnlyExpectedAdvances ==
    [][(/\ variant = "ordered"
        /\ detection_callback
        /\ now' > now
        /\ current_state = WAITING
        /\ current_frequency_index < NumTargets) =>
           LET expected_freq == TargetFrequencies[current_frequency_index + 1]
               late == /\ current_frequency_index > 0
                       /\ now' - state_transition_time > StateTimeout
           IN  /\ current_frequency_index' <= current_frequency_index + 1
               /\ current_frequency_index' > current_frequency_index =>
                      /\ expected_freq \in last_call'.detected
                      /\ state_transition_time' = now'
               /\ (expected_freq \in last_call'.detected /\ ~late) =>
                      /\ state_transition_time' = now'
                      /\ \/ current_frequency_index' = current_frequency_index + 1
                         \/ last_call'.fired /\ current_frequency_index' = 0
               /\ (expected_freq \notin last_call'.detected /\ ~late) =>
                      /\ current_frequency_index' = current_frequency_index
                      /\ state_transition_time' = state_transition_time]_vars

\* the machine waits for the second target and the last call sustained-
\* detected the first one only: the index is still 1 and the transition
\* time is that of an earlier call
C22_Witness ==
    /\ variant = "ordered"
    /\ last_call.ran
    /\ last_call.detected = {TargetFrequencies[1]}
    /\ current_frequency_index = 1
    /\ current_state = WAITING
    /\ state_transition_time < now

\* C23: in one call of _detect_target_frequencies a target's record gets the
\* call's time only if a dominant peak of the block lies within the tolerance
\* of the target (for the ordered detector: or of its second or third
\* harmonic) with an amplitude of at least detection_threshold times the
\* largest peak amplitude of the block; and only such a target is reported.
C23_RelativeThreshold ==
    (variant \in {"ordered", "unordered"} /\ fa_peaks.done /\ last_call.ran) =>
        LET mag == fa_audio_data.magnitude
            loudest == CHOOSE x \in Freqs : \A y \in Freqs : mag[y] <= mag[x]
            accepted(f) == IF variant = "ordered"
                           THEN {f * (i + 1) : i \in 0..(NumHarmonics - 1)}
                           ELSE {f}
            strong(f) == \E x \in Freqs, g \in accepted(f) :
                            /\ mag[x] > 0
                            /\ Abs(x - g) <= ToleranceRange
                            /\ mag[x] * DetectionThresholdDen
                                   >= mag[loudest] * DetectionThresholdNum
            stamped(f) == \E i \in 1..Len(frequency_detection_times[f]) :
                              frequency_detection_times[f][i] = now
        IN  \A f \in TargetSet :
                /\ stamped(f) => strong(f)
                /\ f \in last_call.detected => stamped(f)

\* the unordered detector heard the first target faintly, below the
\* threshold the loud second target sets: the second target's record got
\* the call's time, the first target's did not and is not reported
C23_Witness ==
    /\ variant = "unordered"
    /\ fa_peaks.done
    /\ last_call.ran
    /\ fa_audio_data.magnitude[TargetFrequencies[1]] = Faint
    /\ fa_audio_data.magnitude[TargetFrequencies[2]] = Loud + 1
    /\ frequency_detection_times[TargetFrequencies[1]] = <<Epoch - 1>>
    /\ frequency_detection_times[TargetFrequencies[2]] = <<Epoch - 1, now>>
    /\ TargetFrequencies[1] \notin last_call.detected

\* C24: the record length that makes a target sustained-detected is
\* ceil(detection_duration * sample_rate / chunk_size): a target is reported
\* only when its record holds at least that many entries.
C24_MinDetectionsIsCeil ==
    LET product == DetectionDuration * SampleRate
        ceil == (product + ChunkSize - 1) \div ChunkSize
    IN  (variant \in {"ordered", "unordered"} /\ last_call.ran) =>
            \A f \in last_call.detected : Len(frequency_detection_times[f]) >= ceil

\* C25 as stated: for two feature sequences that are not empty, the DTW fills
\* exactly the cells (i, j) with |i - j| <= window, window being
\* max(1, round(max(lenA, lenB) * window_constraint_ratio)), and leaves every
\* other cell at infinity.
C25_BandIsRoundedWindow ==
    (variant = "dtw" /\ dtw_similarity.computed) =>
        LET seq1 == extract_features(dtw_pattern)
            seq2 == extract_features(dtw_reference)
            n == Len(seq1)
            m == Len(seq2)
            product == Max(n, m) * window_constraint_ratio[1]
            den == window_constraint_ratio[2]
            floor == product \div den
            twice == 2 * (product % den)
            round == IF twice > den \/ (twice = den /\ floor % 2 = 1)
                     THEN floor + 1 ELSE floor
            window == Max(1, round)
            used == default_window_constraint(n, m, window_constraint_ratio)
            filled == dtw_matrix(seq1, seq2, used)
        IN  \A i \in 1..n, j \in 1..m :
                (filled[i, j] # Infinity) <=> (Abs(i - j) <= window)

\* C25: for two feature sequences that are not empty, the DTW fills exactly
\* the cells (i, j), 1 <= i <= lenA, 1 <= j <= lenB, with |i - j| <= window,
\* and leaves every other cell at infinity, window being
\* max(1, floor(max(lenA, lenB) * window_constraint_ratio)).
C25_BandIsTruncatedWindow ==
    (variant = "dtw" /\ dtw_similarity.computed) =>
        LET seq1 == extract_features(dtw_pattern)
            seq2 == extract_features(dtw_reference)
            n == Len(seq1)
            m == Len(seq2)
            product == Max(n, m) * window_constraint_ratio[1]
            window == Max(1, product \div window_constraint_ratio[2])
            used == default_window_constraint(n, m, window_constraint_ratio)
            filled == dtw_matrix(seq1, seq2, used)
        IN  \A i \in 1..n, j \in 1..m :
                (filled[i, j] # Infinity) <=> (Abs(i - j) <= window)

\* two sequences without nan whose lengths differ by more than the window
\* were compared: the matrix has cells inside and cells outside the band
C25_Witness ==
    /\ variant = "dtw"
    /\ dtw_similarity.computed
    /\ ~HasNaN(extract_features(dtw_pattern))
    /\ ~HasNaN(extract_features(dtw_reference))
    /\ LET n == Len(extract_features(dtw_pattern))
           m == Len(extract_features(dtw_reference))
           window == default_window_constraint(n, m, window_constraint_ratio)
       IN  /\ n >= 2
           /\ m >= 2
           /\ Abs(n - m) > window

\* C26: for two feature sequences that are not empty and hold no nan, the
\* distance the DTW returns is the least sum of local distances over the
\* monotone warping paths from (1, 1) to (lenA, lenB) that stay inside the
\* band, and infinity when there is no such path.
C26_DistanceIsLeastPathCost ==
    (/\ variant = "dtw"
     /\ dtw_similarity.computed
     /\ ~HasNaN(extract_features(dtw_pattern))
     /\ ~HasNaN(extract_features(dtw_reference))) =>
        LET seq1 == extract_features(dtw_pattern)
            seq2 == extract_features(dtw_reference)
            n == Len(seq1)
            m == Len(seq2)
            window == default_window_constraint(n, m, window_constraint_ratio)
            \* the sums of the local distances along every path that ends in (i, j)
            sums[i \in 0..n, j \in 0..m] ==
                IF i = 0 /\ j = 0 THEN {0}
                ELSE IF i = 0 \/ j = 0 \/ Abs(i - j) > window THEN {}
                ELSE {Abs(seq1[i] - seq2[j]) + s :
                         s \in sums[i - 1, j] \cup sums[i, j - 1] \cup sums[i - 1, j - 1]}
            distance == dtw_distance_optimized(seq1, seq2, window_constraint_ratio)
        IN  IF sums[n, m] = {}
            THEN distance = Infinity /\ dtw_similarity.kind = "one"
            ELSE /\ distance \in sums[n, m]
                 /\ \A s \in sums[n, m] : distance <= s
                 /\ dtw_similarity = Similarity("value", distance, n + m, TRUE)

\* two sequences without nan were compared, and the paths inside the band
\* do not all cost the same: the least cost is above zero
C26_Witness ==
    /\ variant = "dtw"
    /\ dtw_similarity.computed
    /\ dtw_similarity.kind = "value"
    /\ dtw_similarity.num > 0
    /\ Len(extract_features(dtw_pattern)) >= 3
    /\ Len(extract_features(dtw_reference)) >= 3
    /\ Len(extract_features(dtw_pattern)) # Len(extract_features(dtw_reference))

C28_DetectionIffFullAndSimilar ==
    (variant = "pattern" /\ last_call.ran) =>
        /\ last_call.matched <=>
              /\ Len(audio_buffer) = PatternBufferSize
              /\ SimilarityWithinThreshold(extract_features(audio_buffer),
                                           reference_features)
        /\ Len(audio_buffer) < PatternBufferSize =>
              ~last_call.matched /\ ~last_call.fired

\* a block reported as a detection on a full buffer, after blocks that were
\* processed while the buffer was filling
C28_Witness ==
    /\ variant = "pattern"
    /\ last_call.ran
    /\ last_call.matched
    /\ Len(audio_buffer) = PatternBufferSize
    /\ samples_ingested >= PatternBufferSize

C30_UnorderedFiresOnlyOnEnough ==
    [][variant = "unordered" =>
          LET sustained ==
                  {f \in last_call'.detected :
                       Len(frequency_detection_times'[f]) >= min_detections}
          IN  /\ fire_times' # fire_times =>
                    /\ Cardinality(sustained) >= MinMatchingFrequencies
                    /\ now' - last_detection_time >= ThrottleDuration
              /\ Cardinality(last_call'.detected) < MinMatchingFrequencies =>
                    /\ fire_times' = fire_times
                    /\ ~last_call'.fired]_vars

\* the unordered detector fired a second time, on a block with enough
\* sustained-detected targets
C30_Witness ==
    /\ variant = "unordered"
    /\ last_call.fired
    /\ Cardinality(last_call.detected) >= MinMatchingFrequencies
    /\ Len(fire_times) = 2

\* C31 (frequency detectors): the throttle timestamp changes only in a step
\* that invokes the callback, and is then the time of that call; a call whose
\* detection the throttle suppresses leaves it as it was; and no step invokes
\* the callback more than once.
C31_ThrottleStampOnlyOnFire ==
    [][/\ last_detection_time' # last_detection_time =>
             /\ fire_times' = Append(fire_times, now')
             /\ last_detection_time' = now'
             /\ last_call'.fired
       /\ (now' > now /\ last_call'.matched /\ ~last_call'.fired) =>
             /\ last_detection_time' = last_detection_time
             /\ fire_times' = fire_times
       /\ Len(fire_times') <= Len(fire_times) + 1
       /\ fire_times' # fire_times =>
             /\ fire_times' = Append(fire_times, now')
             /\ last_detection_time' = now']_vars

\* a detection was suppressed by the throttle and the timestamp is still the
\* time of the one fire before it
C31_Witness ==
    /\ variant \in {"ordered", "unordered"}
    /\ last_call.ran
    /\ last_call.matched
    /\ ~last_call.fired
    /\ Len(fire_times) = 1
    /\ last_detection_time = fire_times[1]
    /\ now > last_detection_time

\* C32 (AudioCapture): whatever the order of the start_capture and
\* stop_capture calls on one instance, at most one capture thread is inside
\* _capture_loop, no two threads are inside the audio callback together, and
\* a start_capture call made while capturing returns True and opens no
\* stream and starts no thread.
C32_AtMostOneLoop ==
    /\ [](RunningLoops <= 1 /\ LoopsInCallback <= 1)
    /\ [][(is_capturing /\ start_calls' # start_calls) =>
             /\ start_returned' = "true"
             /\ UNCHANGED <<stream, capture_thread, loop_pc, earlier_loops>>]_vars

\* C33 (AudioCapture): while is_capturing is true the capture loop is alive;
\* neither a failed read nor an exception raised while a block is processed
\* ends it.
C33_LoopStaysAlive == [](is_capturing => LoopRunning)

\* C34 (OTP store): a code is accepted at most once per issue.  No code is
\* accepted twice since it was last issued, whichever handlers validate it
\* and however their calls interleave; the call that accepts a code finds it
\* in the store and leaves it out of the store; and a code comes into the
\* store by being issued only.
C34_OneTimeUse ==
    /\ [](\A c \in Codes : accepted_since_issue[c] <= 1)
    /\ [][/\ \A h \in Handlers :
                (handlers[h].pc = "check" /\ handlers'[h].pc = "unlock") =>
                    /\ otps[handlers[h].otp] # Absent
                    /\ otps'[handlers[h].otp] = Absent
          /\ \A c \in Codes :
                (otps[c] = Absent /\ otps'[c] # Absent) => issued' = issued + 1]_vars

\* two handlers validated the one issued code at the same time: one was
\* accepted, the other answered 401
C34_Witness ==
    /\ variant \in Services
    /\ issued = 1
    /\ now = Epoch
    /\ \E h, g \in Handlers :
          /\ h # g
          /\ handlers[h].pc = "unlock"
          /\ handlers[g].response = "401"
          /\ handlers[g].otp = handlers[h].otp
          /\ accepted_since_issue[handlers[h].otp] = 1

\* C35 (OTP store): the check accepts a code only if the code is in the
\* store and no more than expiry_seconds have passed since it was last
\* issued, and rejects it otherwise; a check that meets an expired code
\* removes it, and a cleanup leaves no expired code in the store.
C35_Expiry ==
    [][/\ \A h \in Handlers :
             (handlers[h].pc = "check" /\ handlers'[h].pc # "check") =>
                 LET otp   == handlers[h].otp
                     valid == /\ otps[otp] # Absent
                              /\ now - otps[otp] <= ExpirySeconds
                 IN  /\ handlers'[h].pc = "unlock" <=> valid
                     /\ handlers'[h].response = "401" <=> ~valid
                     /\ otps'[otp] = Absent
       /\ \A h \in Handlers :
             (handlers[h].pc = "cleanup" /\ handlers'[h].pc = "check") =>
                 \A c \in Codes :
                     /\ otps'[c] # Absent => now - otps'[c] <= ExpirySeconds
                     /\ (otps[c] # Absent /\ now - otps[c] <= ExpirySeconds) =>
                            otps'[c] = otps[c]]_vars

\* the one code that was issued has expired and has been removed without
\* having been accepted, and a request has been answered 401
C35_Witness ==
    /\ variant \in Services
    /\ issued = 1
    /\ now - Epoch > ExpirySeconds
    /\ \A c \in Codes : otps[c] = Absent /\ accepted_since_issue[c] = 0
    /\ \E h \in Handlers : handlers[h].response = "401"
    /\ unlocks = 0

\* C36 (unlock service): the servo action is executed only by a handler
\* whose request's OTP the check has just accepted; a request answered 400 or
\* 401 does not move the servo; and the servo actions never outnumber the
\* OTPs issued.
C36_UnlockOnlyAfterValidation ==
    /\ [](unlocks <= issued)
    /\ [][/\ unlocks' # unlocks =>
                \E h \in Handlers : handlers[h].pc = "unlock" /\ handlers'[h].pc = "idle"
          /\ \A h \in Handlers :
                /\ (handlers[h].pc # "unlock" /\ handlers'[h].pc = "unlock") =>
                       /\ handlers[h].pc = "check"
                       /\ otps[handlers[h].otp] # Absent
                       /\ now - otps[handlers[h].otp] <= ExpirySeconds
                /\ (handlers'[h] # handlers[h]
                    /\ handlers'[h].response \in {"400", "401"}) =>
                       unlocks' = unlocks]_vars

\* the servo was moved once for the one code issued, and a further request
\* with that code was answered 401
C36_Witness ==
    /\ variant \in Services
    /\ issued = 1
    /\ unlocks = 1
    /\ \E h, g \in Handlers :
          /\ handlers[h].response = "success"
          /\ handlers[g].response = "401"
          /\ handlers[g].otp = handlers[h].otp

====
